---- MODULE Spec2Model ----
(***************************************************************************)
(* Model of mlx/backend/metal/primitives.cpp: the eval_gpu entry points of *)
(* Arange, ArgReduce, AsType, Concatenate, Full, Pad, RandomBits, Reshape, *)
(* Slice and SliceUpdate.  One action per eval_gpu; each action records    *)
(* the allocator calls, the bindings of the output's buffer and the kernel *)
(* dispatches it encodes on the stream.  A further action, Execute, runs   *)
(* the encoded dispatches on the device in any order the stream permits.   *)
(* Tensors are rank 2; axes are 0-based as in the source.                  *)
(***************************************************************************)
EXTENDS Integers, Sequences, FiniteSets, TLC

\* ---- bounds of the model ----
MaxDim == 2          \* every extent of a tensor is in 0..MaxDim
MaxInputs == 3       \* Concatenate takes 1..MaxInputs inputs
MaxPad == 1          \* low and high pad sizes are in 0..MaxPad
MaxStep == 2         \* slice steps are in 1..MaxStep
MaxOut == 3          \* out.size() of Arange / ArgReduce is in 0..MaxOut
MaxKeys == 3         \* RandomBits: number of keys is in 0..MaxKeys
MaxElems == 8        \* RandomBits: elements per key is in 0..MaxElems
MaxAxisSize == 270   \* ArgReduce: extent of the reduced axis
MaxThreads == 66     \* largest kernel->maxTotalThreadsPerThreadgroup()

\* ---- program constants ----
simd_size == 32
n_reads == 4
NDim == 2

VARIABLES
  op,      \* the primitive whose eval_gpu ran last ("none" before the first)
  inp,     \* the inputs and attributes that evaluation was given
  allocs,  \* number of calls of allocator::malloc_or_wait it made
  binds,   \* the bindings of out's buffer it made, in order
  queue,   \* the kernel dispatches it encoded on the stream, in order
  done,    \* indices of the dispatches the device has executed
  buf,     \* contents of out's buffer, by element offset
  err      \* "none", or the error the evaluation ended in

vars == <<op, inp, allocs, binds, queue, done, buf, err>>

\* ---- values stored in buffers ----
Uninit == <<"uninit", 0, 0, 0>>
PadVal == <<"val", 0, 0, 0>>
InVal(k, idx) == <<"in", k, idx[1], idx[2]>>
KernelVal(o) == <<"kernel", 0, 0, o>>

\* ---- array helpers ----
Min(a, b) == IF a < b THEN a ELSE b
Size(shape) == shape[1] * shape[2]
RowMajorStrides(shape) == <<shape[2], 1>>
Indices(shape) == (0 .. shape[1] - 1) \X (0 .. shape[2] - 1)
Loc(offset, strides, idx) == offset + idx[1] * strides[1] + idx[2] * strides[2]
Shapes == (0 .. MaxDim) \X (0 .. MaxDim)
\* a kernel's threadgroup holds at least one SIMD group
ThreadLimits == simd_size .. MaxThreads

Dtypes ==
  {"bool_", "uint8", "uint16", "uint32", "uint64", "int8", "int16", "int32",
   "int64", "float16", "float32", "bfloat16", "complex64"}

\* ---- the stream ----
\* A dispatch: kernel name, copy class ("none" for a bespoke kernel), grid,
\* group size, the argument slots bound, the elements it writes (pairs
\* <<offset, value>>) and the concurrent region it was encoded in (0: none).
Dispatch(k, c, g, t, s, w, r) ==
  [kernel |-> k, ctype |-> c, grid |-> g, group |-> t, slots |-> s,
   wr |-> w, region |-> r]

Region(d) == {p[1] : p \in d.wr}

\* dispatch i must complete before dispatch j starts
Ordered(i, j) ==
  i < j /\ ~(queue[i].region # 0 /\ queue[i].region = queue[j].region)

\* the scheduler has not yet run this node's eval_gpu
Fresh == op = "none"

Execute ==
  \E j \in 1 .. Len(queue) :
    /\ j \notin done
    /\ \A i \in 1 .. Len(queue) : Ordered(i, j) => i \in done
    /\ done' = done \cup {j}
    /\ buf' = [o \in DOMAIN buf |->
                IF o \in Region(queue[j])
                  THEN (CHOOSE p \in queue[j].wr : p[1] = o)[2]
                  ELSE buf[o]]
    /\ UNCHANGED <<op, inp, allocs, binds, queue, err>>

\* the state an eval_gpu leaves behind when it returns or throws
Return(o, i, a, b, q, e, sz) ==
  /\ op' = o
  /\ inp' = i
  /\ allocs' = a
  /\ binds' = b
  /\ queue' = q
  /\ err' = e
  /\ done' = {}
  /\ buf' = [k \in 0 .. sz - 1 |-> Uninit]

\* ---- Copy Engine ----
\* copy_gpu_inplace(in, out, ctype): one kernel dispatch writing `wr`
CopyInplace(ctype, wr, region) ==
  Dispatch("copy", ctype, <<>>, 0, {}, wr, region)

\* the elements a strided copy of a source of shape `shape` writes into the
\* destination view (offset, strides); source element idx has value val[idx]
StridedWrites(shape, offset, strides, k) ==
  {<<Loc(offset, strides, idx), InVal(k, idx)>> : idx \in Indices(shape)}

ScalarWrites(size, v) == {<<o, v>> : o \in 0 .. size - 1}

\* ---- Arange ----
ArangeUnsupported(dtype) == dtype \in {"bool_", "complex64"}

ArangeDispatch(n, maxT) ==
  Dispatch("arange", "none", <<n, 1, 1>>, Min(n, maxT),
           {<<0, "start">>, <<1, "step">>, <<2, "out">>},
           {<<o, KernelVal(o)>> : o \in 0 .. n - 1}, 0)

\* ArangeEval without the return of lines 25-27
ArangeEval_NoEarlyReturn(dtype, n, maxT) ==
  IF ArangeUnsupported(dtype)
    THEN [allocs |-> 1, queue |-> <<>>, err |-> "runtime_error"]
    ELSE [allocs |-> 1, queue |-> <<ArangeDispatch(n, maxT)>>, err |-> "none"]

ArangeEval(dtype, n, maxT) ==
  IF n = 0
    THEN [allocs |-> 1, queue |-> <<>>, err |-> "none"]
    ELSE IF ArangeUnsupported(dtype)
      THEN [allocs |-> 1, queue |-> <<>>, err |-> "runtime_error"]
      ELSE [allocs |-> 1, queue |-> <<ArangeDispatch(n, maxT)>>,
            err |-> "none"]

Arange_eval_gpu ==
  /\ Fresh
  /\ \E dt \in Dtypes, n \in 0 .. MaxOut, mt \in ThreadLimits :
      LET r == ArangeEval(dt, n, mt) IN
        Return("Arange", [dtype |-> dt, size |-> n, maxT |-> mt],
               r.allocs, <<"alloc">>, r.queue, r.err, n)

\* ---- ArgReduce ----
CeilDiv(a, b) == (a + b - 1) \div b
RoundUp(a, m) == ((a + m - 1) \div m) * m

\* lines 117-122: min(ceil(axis_size / n_reads), max), then rounded up
ThreadGroupSize(axis_size, maxT) ==
  RoundUp(Min(CeilDiv(axis_size, n_reads), maxT), simd_size)

ArgReduceSlots(ndim) ==
  {<<0, "in">>, <<1, "out">>,
   <<2, IF ndim = 0 THEN "placeholder" ELSE "shape">>,
   <<3, IF ndim = 0 THEN "placeholder" ELSE "in_strides">>,
   <<4, IF ndim = 0 THEN "placeholder" ELSE "out_strides">>,
   <<5, "ndim">>, <<6, "axis_stride">>, <<7, "axis_size">>}

ArgReduceDispatch(reduce, axis_size, out_size, ndim, maxT) ==
  LET tgs == ThreadGroupSize(axis_size, maxT) IN
    Dispatch(reduce, "none", <<out_size * tgs, 1, 1>>, tgs,
             ArgReduceSlots(ndim),
             {<<o, KernelVal(o)>> : o \in 0 .. out_size - 1}, 0)

\* The assert of line 123 aborts a build with assertions enabled and is
\* compiled out under NDEBUG: `checked` is the build.
ArgReduce_eval_gpu ==
  /\ Fresh
  /\ \E reduce \in {"argmin_", "argmax_"}, ax \in 1 .. MaxAxisSize,
       nd \in 0 .. 1, n \in 0 .. MaxOut, mt \in ThreadLimits,
       checked \in BOOLEAN :
      /\ nd = 0 => n = 1
      /\ checked => ThreadGroupSize(ax, mt) > mt
      /\ Return("ArgReduce",
                [axis_size |-> ax, size |-> n, ndim |-> nd, maxT |-> mt],
                1, <<"alloc">>,
                IF checked THEN <<>>
                  ELSE <<ArgReduceDispatch(reduce, ax, n, nd, mt)>>,
                IF checked THEN "assertion_failed" ELSE "none",
                n)

\* ---- RandomBits ----
ItemSize(dtype) ==
  CASE dtype \in {"bool_", "uint8", "int8"} -> 1
    [] dtype \in {"uint16", "int16", "float16", "bfloat16"} -> 2
    [] dtype \in {"uint32", "int32", "float32"} -> 4
    [] OTHER -> 8

BytesPerKey(dtype, out_size, num_keys) ==
  ItemSize(dtype) * (out_size \div num_keys)
OutPerKey_Floor(bytes_per_key) == bytes_per_key \div 4
OutPerKey(bytes_per_key) == (bytes_per_key + 4 - 1) \div 4
HalfSize(out_per_key) == out_per_key \div 2
Odd(out_per_key) == out_per_key % 2

RandomBitsSlots(row_contiguous) ==
  {<<0, "keys">>, <<1, "out">>, <<2, "odd">>, <<3, "bytes_per_key">>}
    \cup (IF row_contiguous THEN {}
          ELSE {<<4, "ndim">>, <<5, "shape">>, <<6, "strides">>})

RandomBitsDispatch(dtype, out_size, num_keys, row_contiguous, maxT) ==
  LET opk == OutPerKey(BytesPerKey(dtype, out_size, num_keys)) IN
    Dispatch(IF row_contiguous THEN "rbitsc" ELSE "rbits", "none",
             <<num_keys, HalfSize(opk) + Odd(opk), 1>>, maxT,
             RandomBitsSlots(row_contiguous),
             {<<o, KernelVal(o)>> : o \in 0 .. out_size - 1}, 0)

\* With no keys, line 278 divides by zero: the build either traps there or
\* goes on with some quotient, which only the empty-output return follows.
RandomBits_eval_gpu ==
  /\ Fresh
  /\ \E dt \in {"uint8", "uint16", "uint32"}, nk \in 0 .. MaxKeys,
       epk \in 0 .. MaxElems, rc \in BOOLEAN, mt \in ThreadLimits,
       trap \in BOOLEAN :
      LET n == nk * epk
          i == [dtype |-> dt, num_keys |-> nk, size |-> n,
                row_contiguous |-> rc, maxT |-> mt] IN
        /\ trap => nk = 0
        /\ IF trap
             THEN Return("RandomBits", i, 0, <<>>, <<>>, "trap", 0)
             ELSE Return("RandomBits", i, 1, <<"alloc">>,
                         IF n = 0 THEN <<>>
                           ELSE <<RandomBitsDispatch(dt, n, nk, rc, mt)>>,
                         "none", n)

\* ---- copy_gpu ----
\* copy_gpu(in, out, ctype): binds out to a fresh allocation, then encodes
\* one copy kernel of class ctype writing `wr` outside any concurrent region
CopyGpu(ctype, wr) ==
  [allocs |-> 1, binds |-> <<"alloc">>, queue |-> <<CopyInplace(ctype, wr, 0)>>]

\* the logical elements of a source of shape `shape`, laid out row-major
DenseWrites(shape, k) == StridedWrites(shape, 0, RowMajorStrides(shape), k)

\* ---- AsType ----
AsTypeCopyType(contiguous) == IF contiguous THEN "Vector" ELSE "General"

AsType_eval_gpu ==
  /\ Fresh
  /\ \E shape \in Shapes, c \in BOOLEAN :
      LET r == CopyGpu(AsTypeCopyType(c), DenseWrites(shape, 0)) IN
        Return("AsType",
               [shape |-> shape, size |-> Size(shape), contiguous |-> c],
               r.allocs, r.binds, r.queue, "none", Size(shape))

\* ---- Full ----
FullCopyType(data_size, contiguous) ==
  IF data_size = 1 THEN "Scalar"
    ELSE IF contiguous THEN "Vector" ELSE "General"

\* the stored element counts a source of `size` logical elements may have:
\* one (a broadcast scalar), as many, or more (a view of a larger buffer)
DataSizes(size) == {1, size, size + 1} \ {0}

\* what copying a base of shape `shape` with data_size stored elements
\* writes: a base of one stored element repeats it at every index
BaseVal(data_size, idx) ==
  IF data_size = 1 THEN InVal(0, <<0, 0>>) ELSE InVal(0, idx)

BaseWrites(shape, data_size) ==
  {<<Loc(0, RowMajorStrides(shape), idx), BaseVal(data_size, idx)>> :
     idx \in Indices(shape)}

Full_eval_gpu ==
  /\ Fresh
  /\ \E shape \in Shapes, c \in BOOLEAN :
      \E ds \in DataSizes(Size(shape)) :
        LET r == CopyGpu(FullCopyType(ds, c), BaseWrites(shape, ds)) IN
          Return("Full",
                 [shape |-> shape, size |-> Size(shape), data_size |-> ds,
                  contiguous |-> c],
                 r.allocs, r.binds, r.queue, "none", Size(shape))

\* ---- Reshape ----
\* copy_necessary is prepare_reshape's verdict on the input's layout
\* ReshapeEval sharing the input's buffer after the copy as well
ReshapeEval_CopyAndShare(copy_necessary, shape) ==
  IF copy_necessary
    THEN [allocs |-> 1, binds |-> <<"alloc", "alias">>,
          queue |-> <<CopyInplace("General", DenseWrites(shape, 0), 0)>>]
    ELSE [allocs |-> 0, binds |-> <<"alias">>, queue |-> <<>>]

ReshapeEval(copy_necessary, shape) ==
  IF copy_necessary
    THEN CopyGpu("General", DenseWrites(shape, 0))
    ELSE [allocs |-> 0, binds |-> <<"alias">>, queue |-> <<>>]

Reshape_eval_gpu ==
  /\ Fresh
  /\ \E shape \in Shapes, cn \in BOOLEAN :
      LET r == ReshapeEval(cn, shape) IN
        Return("Reshape",
               [shape |-> shape, size |-> Size(shape), copy_needed |-> cn],
               r.allocs, r.binds, r.queue, "none",
               IF cn THEN Size(shape) ELSE 0)

\* ---- Slice ----
\* the (start, step, extent) triples that slice an axis of extent d
AxisSlices(d) ==
  {a \in [start : 0 .. d, step : 1 .. MaxStep, n : 0 .. d] :
     a.n = 0 \/ a.start + (a.n - 1) * a.step <= d - 1}

\* prepare_slice: the element offset of the first selected element and the
\* strides of the selection within the sliced array
SliceOffset(strides, a1, a2) == a1.start * strides[1] + a2.start * strides[2]
SliceStrides(strides, a1, a2) == <<strides[1] * a1.step, strides[2] * a2.step>>

\* the element stored at offset o of a dense source of shape `shape`
SrcAt(shape, k, o) == InVal(k, <<o \div shape[2], o % shape[2]>>)

SliceEval(in_shape, a1, a2, copy_needed) ==
  LET out_shape == <<a1.n, a2.n>>
      in_strides == RowMajorStrides(in_shape)
      data_offset == SliceOffset(in_strides, a1, a2)
      inp_strides == SliceStrides(in_strides, a1, a2) IN
    IF Size(out_shape) = 0
      THEN [allocs |-> 0, binds |-> <<"null">>, queue |-> <<>>]
      ELSE IF copy_needed
        THEN [allocs |-> 1, binds |-> <<"alloc">>,
              queue |-> <<CopyInplace("General",
                {<<Loc(0, RowMajorStrides(out_shape), idx),
                   SrcAt(in_shape, 0, Loc(data_offset, inp_strides, idx))>> :
                   idx \in Indices(out_shape)}, 0)>>]
        ELSE [allocs |-> 0, binds |-> <<"alias">>, queue |-> <<>>]

Slice_eval_gpu ==
  /\ Fresh
  /\ \E in_shape \in Shapes, cn \in BOOLEAN :
      \E a1 \in AxisSlices(in_shape[1]), a2 \in AxisSlices(in_shape[2]) :
        LET r == SliceEval(in_shape, a1, a2, cn)
            n == Size(<<a1.n, a2.n>>) IN
          Return("Slice",
                 [in_shape |-> in_shape, slice |-> <<a1, a2>>,
                  shape |-> <<a1.n, a2.n>>, size |-> n, copy_needed |-> cn],
                 r.allocs, r.binds, r.queue, "none",
                 IF r.allocs = 1 THEN n ELSE 0)

\* ---- SliceUpdate ----
SliceUpdateCopyType_NoSizeCheck(contiguous, size, data_size) ==
  IF data_size = 1 THEN "Scalar"
    ELSE IF contiguous THEN "Vector" ELSE "General"

SliceUpdateCopyType(contiguous, size, data_size) ==
  IF data_size = 1 THEN "Scalar"
    ELSE IF contiguous /\ size = data_size THEN "Vector" ELSE "General"

\* SliceUpdateEval writing the update before the base
SliceUpdateEval_UpdateFirst(shape, a1, a2, contiguous, data_size) ==
  LET upd_shape == <<a1.n, a2.n>>
      base == CopyGpu(SliceUpdateCopyType(contiguous, Size(shape), data_size),
                      BaseWrites(shape, data_size))
      data_offset == SliceOffset(RowMajorStrides(shape), a1, a2)
      out_strides == SliceStrides(RowMajorStrides(shape), a1, a2) IN
    IF Size(shape) = 0
      THEN [allocs |-> 0, binds |-> <<"null">>, queue |-> <<>>]
      ELSE IF Size(upd_shape) = 0
        THEN [allocs |-> 0, binds |-> <<"alias">>, queue |-> <<>>]
        ELSE [allocs |-> base.allocs, binds |-> base.binds,
              queue |->
                <<CopyInplace("GeneralGeneral",
                    StridedWrites(upd_shape, data_offset, out_strides, 1),
                    0)>> \o base.queue]

SliceUpdateEval(shape, a1, a2, contiguous, data_size) ==
  LET upd_shape == <<a1.n, a2.n>>
      base == CopyGpu(SliceUpdateCopyType(contiguous, Size(shape), data_size),
                      BaseWrites(shape, data_size))
      data_offset == SliceOffset(RowMajorStrides(shape), a1, a2)
      out_strides == SliceStrides(RowMajorStrides(shape), a1, a2) IN
    IF Size(shape) = 0
      THEN [allocs |-> 0, binds |-> <<"null">>, queue |-> <<>>]
      ELSE IF Size(upd_shape) = 0
        THEN [allocs |-> 0, binds |-> <<"alias">>, queue |-> <<>>]
        ELSE [allocs |-> base.allocs, binds |-> base.binds,
              queue |-> base.queue \o
                <<CopyInplace("GeneralGeneral",
                    StridedWrites(upd_shape, data_offset, out_strides, 1),
                    0)>>]

SliceUpdate_eval_gpu ==
  /\ Fresh
  /\ \E shape \in Shapes, c \in BOOLEAN :
      \E a1 \in AxisSlices(shape[1]), a2 \in AxisSlices(shape[2]),
         ds \in DataSizes(Size(shape)) :
        LET r == SliceUpdateEval(shape, a1, a2, c, ds) IN
          Return("SliceUpdate",
                 [shape |-> shape, size |-> Size(shape), slice |-> <<a1, a2>>,
                  upd_shape |-> <<a1.n, a2.n>>, contiguous |-> c,
                  data_size |-> ds],
                 r.allocs, r.binds, r.queue, "none",
                 IF r.allocs = 1 THEN Size(shape) ELSE 0)

\* ---- Pad ----
\* the axis an index k in -ndim .. ndim - 1 names
NormAxis(k) == (k + NDim) % NDim

\* axes_ lists distinct axes, each written either as k or as k - ndim
AxesLists ==
  {s \in UNION {[1 .. k -> -NDim .. NDim - 1] : k \in 0 .. NDim} :
     \A i, j \in DOMAIN s : i # j => NormAxis(s[i]) # NormAxis(s[j])}

ResolveAxis_Complement(ax, ndim) == IF ax < 0 THEN -ax - 1 ELSE ax

\* line 257
ResolveAxis(ax, ndim) == IF ax < 0 THEN ndim + ax ELSE ax

RECURSIVE PadOffsetUpTo(_, _, _, _)
PadOffsetUpTo(i, axes, low, strides) ==
  IF i = 0 THEN 0
    ELSE PadOffsetUpTo(i - 1, axes, low, strides)
           + strides[ResolveAxis(axes[i], NDim) + 1] * low[i]

\* lines 255-259
PadDataOffset(axes, low, strides) ==
  PadOffsetUpTo(Len(axes), axes, low, strides)

\* the padding the attributes add to axis ax (0-based, resolved)
PadOn(axes, pads, ax) ==
  IF \E i \in DOMAIN axes : NormAxis(axes[i]) = ax
    THEN pads[CHOOSE i \in DOMAIN axes : NormAxis(axes[i]) = ax]
    ELSE 0

PadOutShape(in_shape, axes, low, high) ==
  [d \in 1 .. NDim |->
     in_shape[d] + PadOn(axes, low, d - 1) + PadOn(axes, high, d - 1)]

PadEval(in_shape, out_shape, axes, low) ==
  LET fill == CopyGpu("Scalar", ScalarWrites(Size(out_shape), PadVal))
      strides == RowMajorStrides(out_shape)
      data_offset == PadDataOffset(axes, low, strides) IN
    [allocs |-> fill.allocs, binds |-> fill.binds,
     queue |-> fill.queue \o
       <<CopyInplace("GeneralGeneral",
           StridedWrites(in_shape, data_offset, strides, 0), 0)>>]

Pad_eval_gpu ==
  /\ Fresh
  /\ \E in_shape \in Shapes, axes \in AxesLists :
      \E low \in [DOMAIN axes -> 0 .. MaxPad],
         high \in [DOMAIN axes -> 0 .. MaxPad] :
        LET out_shape == PadOutShape(in_shape, axes, low, high)
            r == PadEval(in_shape, out_shape, axes, low) IN
          Return("Pad",
                 [in_shape |-> in_shape, shape |-> out_shape,
                  size |-> Size(out_shape), axes |-> axes, low |-> low,
                  high |-> high],
                 r.allocs, r.binds, r.queue, "none", Size(out_shape))

\* ---- Concatenate ----
RECURSIVE Sum(_, _)
Sum(ns, i) == IF i = 0 THEN 0 ELSE Sum(ns, i - 1) + ns[i]

\* sizes[i] had the partial_sum of line 170 been left out
Sizes_NoPartialSum(ns, i) == IF i = 0 THEN 0 ELSE ns[i]

\* lines 165-170: sizes[i] after the partial_sum, for the 0-based input i
Sizes(ns, i) == Sum(ns, i)

\* the shape of an array of extent n along axis (0-based) and m across it
ShapeAlong(axis, n, m) == IF axis = 0 THEN <<n, m>> ELSE <<m, n>>

\* the offset taken along the other axis
ConcatDataOffset_OtherAxis(strides, axis, ns, i) ==
  strides[(1 - axis) + 1] * Sizes(ns, i)

\* line 184, for the 0-based input i
ConcatDataOffset(strides, axis, ns, i) == strides[axis + 1] * Sizes(ns, i)

ConcatenateEval(axis, ns, m) ==
  LET out_shape == ShapeAlong(axis, Sum(ns, Len(ns)), m)
      strides == RowMajorStrides(out_shape) IN
    [allocs |-> 1, binds |-> <<"alloc">>,
     queue |-> [i \in 1 .. Len(ns) |->
       CopyInplace("GeneralGeneral",
         StridedWrites(ShapeAlong(axis, ns[i], m),
                       ConcatDataOffset(strides, axis, ns, i - 1),
                       strides, i - 1),
         1)]]

Concatenate_eval_gpu ==
  /\ Fresh
  /\ \E axis \in 0 .. NDim - 1, m \in 0 .. MaxDim, k \in 1 .. MaxInputs :
      \E ns \in [1 .. k -> 0 .. MaxDim] :
        LET out_shape == ShapeAlong(axis, Sum(ns, Len(ns)), m)
            r == ConcatenateEval(axis, ns, m) IN
          Return("Concatenate",
                 [axis |-> axis, ns |-> ns, m |-> m, shape |-> out_shape,
                  size |-> Size(out_shape)],
                 r.allocs, r.binds, r.queue, "none", Size(out_shape))

Init ==
  /\ op = "none"
  /\ inp = [size |-> 0]
  /\ allocs = 0
  /\ binds = <<>>
  /\ queue = <<>>
  /\ done = {}
  /\ buf = [k \in {} |-> Uninit]
  /\ err = "none"

Next ==
  \/ Arange_eval_gpu
  \/ ArgReduce_eval_gpu
  \/ RandomBits_eval_gpu
  \/ AsType_eval_gpu
  \/ Full_eval_gpu
  \/ Reshape_eval_gpu
  \/ Slice_eval_gpu
  \/ SliceUpdate_eval_gpu
  \/ Pad_eval_gpu
  \/ Concatenate_eval_gpu
  \/ Execute

Spec == Init /\ [][Next]_vars

\* ======================= properties =======================
Primitives ==
  {"Arange", "ArgReduce", "Concatenate", "Pad", "RandomBits", "Reshape",
   "Slice", "SliceUpdate", "AsType", "Full"}
Evaluated == op \in Primitives
AllDone == done = 1 .. Len(queue)
Slots(d) == {p[1] : p \in d.slots}

\* C1 as stated: every primitive whose output is empty calls the allocator
\* zero times and encodes zero dispatches.
C1_EmptyNoAllocNoDispatch ==
  (Evaluated /\ inp.size = 0) => (allocs = 0 /\ queue = <<>>)

\* C1 as amended: with an empty output, Slice and SliceUpdate call the
\* allocator zero times, encode no dispatch and bind a null buffer; Arange
\* and RandomBits encode no dispatch but call the allocator (Arange once,
\* RandomBits once when it has keys and at most once otherwise); ArgReduce
\* and Concatenate call the allocator once, and ArgReduce, unless its
\* assertion stops it, encodes one dispatch whose grid has zero threads.
C1_EmptyOutput ==
  (Evaluated /\ inp.size = 0) =>
    /\ op \in {"Slice", "SliceUpdate"} =>
         (allocs = 0 /\ queue = <<>> /\ binds = <<"null">>)
    /\ op = "Arange" => (allocs = 1 /\ queue = <<>> /\ err = "none")
    /\ op = "RandomBits" =>
         /\ queue = <<>>
         /\ allocs <= 1
         /\ inp.num_keys >= 1 => (allocs = 1 /\ err = "none")
    /\ op = "ArgReduce" =>
         /\ allocs = 1
         /\ err = "none" => (Len(queue) = 1 /\ queue[1].grid = <<0, 1, 1>>)
    /\ op = "Concatenate" => allocs = 1

C1_Witness ==
  op = "Arange" /\ inp.size = 0 /\ allocs = 1 /\ queue = <<>>

\* C2: two dispatches that write a common element of the buffer are ordered
\* by the stream; the dispatches of Concatenate, all in one concurrent
\* region, write pairwise disjoint regions; Pad's fill and interior copy,
\* the second inside the first's region, are in no concurrent region.
C2_WritesOrdered ==
  /\ \A i, j \in 1 .. Len(queue) :
       (i < j /\ Region(queue[i]) \cap Region(queue[j]) # {}) => Ordered(i, j)
  /\ op = "Concatenate" =>
       \A i, j \in 1 .. Len(queue) :
         /\ queue[i].region = 1
         /\ i # j => Region(queue[i]) \cap Region(queue[j]) = {}
  /\ op = "Pad" =>
       /\ Len(queue) = 2
       /\ queue[1].region = 0 /\ queue[2].region = 0
       /\ Region(queue[2]) \subseteq Region(queue[1])
  /\ \A j \in done : \A i \in 1 .. Len(queue) : Ordered(i, j) => i \in done

C2_Witness ==
  /\ op = "Concatenate"
  /\ Len(queue) = 3
  /\ \A i \in 1 .. 3 : Region(queue[i]) # {}
  /\ done = {3}

\* C3: Concatenate along axis a: the view of input i starts at element
\* out.strides[a] * (sum of the earlier inputs' extents along a), every
\* element a copy writes lies inside the output buffer, every output
\* element is written by exactly one input, and once all copies have run,
\* in whatever order, output element (.., p, ..) with p in
\* [prefix_i, prefix_i + extent_i) holds input i's element (.., p - prefix_i, ..).
PrefixOf(i) == Sum(inp.ns, i - 1)
AlongAxis(idx) == idx[inp.axis + 1]
Shifted(idx, k) ==
  IF inp.axis = 0 THEN <<idx[1] - k, idx[2]>> ELSE <<idx[1], idx[2] - k>>
OwnerOf(idx) ==
  CHOOSE i \in 1 .. Len(inp.ns) :
    AlongAxis(idx) \in PrefixOf(i) .. PrefixOf(i) + inp.ns[i] - 1

C3_Concatenate ==
  op = "Concatenate" =>
    LET strides == RowMajorStrides(inp.shape) IN
      /\ Len(queue) = Len(inp.ns)
      /\ \A i \in 1 .. Len(queue) :
           /\ Region(queue[i]) \subseteq 0 .. inp.size - 1
           /\ Region(queue[i]) # {} =>
                <<strides[inp.axis + 1] * PrefixOf(i), InVal(i - 1, <<0, 0>>)>>
                  \in queue[i].wr
      /\ \A o \in 0 .. inp.size - 1 :
           Cardinality({i \in 1 .. Len(queue) : o \in Region(queue[i])}) = 1
      /\ AllDone =>
           \A idx \in Indices(inp.shape) :
             buf[Loc(0, strides, idx)] =
               InVal(OwnerOf(idx) - 1, Shifted(idx, PrefixOf(OwnerOf(idx))))

C3_Witness ==
  /\ op = "Concatenate"
  /\ inp.axis = 1 /\ inp.m = 2
  /\ Len(inp.ns) = 3 /\ \A i \in 1 .. 3 : inp.ns[i] >= 1
  /\ AllDone

\* C4: Pad: the scalar fill of the whole output is encoded before the
\* interior copy; the interior starts at the element offset that sums
\* low_pad_size[i] * out.strides[axis_i] over the listed axes, an axis
\* written as a negative k counting as ndim + k; once both have run the
\* output holds the input inside the interior and the pad value elsewhere.
LowOf(d) == PadOn(inp.axes, inp.low, d - 1)
InInterior(idx) ==
  \A d \in 1 .. NDim : idx[d] - LowOf(d) \in 0 .. inp.in_shape[d] - 1

C4_Pad ==
  op = "Pad" =>
    LET strides == RowMajorStrides(inp.shape) IN
      /\ Len(queue) = 2
      /\ queue[1].ctype = "Scalar" /\ queue[2].ctype = "GeneralGeneral"
      /\ Region(queue[1]) = 0 .. inp.size - 1
      /\ 2 \in done => 1 \in done
      /\ Region(queue[2]) # {} =>
           <<LowOf(1) * strides[1] + LowOf(2) * strides[2], InVal(0, <<0, 0>>)>>
             \in queue[2].wr
      /\ AllDone =>
           \A idx \in Indices(inp.shape) :
             buf[Loc(0, strides, idx)] =
               IF InInterior(idx)
                 THEN InVal(0, <<idx[1] - LowOf(1), idx[2] - LowOf(2)>>)
                 ELSE PadVal

C4_Witness ==
  /\ op = "Pad"
  /\ inp.axes = <<-1, -2>> /\ inp.low = <<1, 1>> /\ inp.high = <<1, 0>>
  /\ inp.in_shape = <<2, 1>>
  /\ AllDone

\* C5: Arange with dtype bool or complex64 ends in an error with no
\* dispatch, for every output size; with any other dtype it raises no
\* error and, for a non-empty output, encodes exactly one dispatch of
\* out.size() threads with start at slot 0 and step at slot 1.
C5_ArangeFailFast ==
  op = "Arange" =>
    IF inp.dtype \in {"bool_", "complex64"}
      THEN err # "none" /\ queue = <<>>
      ELSE /\ err = "none"
           /\ inp.size > 0 =>
                /\ Len(queue) = 1
                /\ queue[1].grid = <<inp.size, 1, 1>>
                /\ {<<0, "start">>, <<1, "step">>} \subseteq queue[1].slots

\* C6: ArgReduce: for every extent of the reduced axis and every maximum
\* group size of the kernel, the thread-group size is a multiple of 32,
\* namely ceil(axis_size / 4) rounded up (the spec caps it at the kernel's
\* maximum, so this part is read for ceil(axis_size / 4) within the
\* maximum), it never exceeds the kernel's maximum (the assertion always
\* holds), and the grid is out.size() groups of that size.
C6_PerThread == (inp.axis_size + 3) \div 4

C6_ThreadGroupSize ==
  op = "ArgReduce" =>
    /\ err = "none"
    /\ Len(queue) = 1
    /\ \A i \in 1 .. Len(queue) :
         /\ queue[i].group % 32 = 0
         /\ C6_PerThread <= inp.maxT =>
              /\ queue[i].group >= C6_PerThread
              /\ queue[i].group - 32 < C6_PerThread
         /\ queue[i].group <= inp.maxT
         /\ queue[i].grid = <<inp.size * queue[i].group, 1, 1>>

\* C7: RandomBits with N >= 1 keys and a non-empty output: with
\* bytes_per_key = itemsize * (out.size() / N) and out_per_key the least k
\* with 4 * k >= bytes_per_key, the grid is (N, half_size + odd, 1) where
\* half_size = out_per_key div 2 and odd = out_per_key mod 2; N = 3 and
\* bytes_per_key = 8 give (3, 1, 1).  The kernel is the contiguous-key
\* one iff the keys are row-contiguous, and exactly the strided one binds
\* slots 4, 5 and 6.
C7_BytesPerKey == ItemSize(inp.dtype) * (inp.size \div inp.num_keys)
C7_Blocks ==
  CHOOSE k \in 0 .. C7_BytesPerKey :
    4 * k >= C7_BytesPerKey /\ 4 * (k - 1) < C7_BytesPerKey

C7_RandomBitsGrid ==
  (op = "RandomBits" /\ inp.num_keys >= 1 /\ inp.size > 0) =>
    /\ err = "none"
    /\ Len(queue) = 1
    /\ queue[1].grid =
         <<inp.num_keys, (C7_Blocks \div 2) + (C7_Blocks % 2), 1>>
    /\ (inp.num_keys = 3 /\ C7_BytesPerKey = 8) => queue[1].grid = <<3, 1, 1>>
    /\ queue[1].kernel = (IF inp.row_contiguous THEN "rbitsc" ELSE "rbits")
    /\ {0, 1, 2, 3} \subseteq Slots(queue[1])
    /\ IF inp.row_contiguous
         THEN Slots(queue[1]) \cap {4, 5, 6} = {}
         ELSE {<<4, "ndim">>, <<5, "shape">>, <<6, "strides">>}
                \subseteq queue[1].slots

C7_Witness ==
  /\ op = "RandomBits"
  /\ inp.num_keys = 3 /\ inp.dtype = "uint8" /\ inp.size = 24
  /\ ~inp.row_contiguous
  /\ Len(queue) = 1 /\ queue[1].grid = <<3, 1, 1>>

\* C8: the copy class is always exactly one of the four.  Full and the
\* base copy of SliceUpdate take Scalar when the source stores exactly one
\* element, else Vector when it is contiguous (SliceUpdate: and its size
\* equals its data_size), else General; AsType takes Vector iff the input
\* is contiguous and General otherwise.
CopyTypes == {"Scalar", "Vector", "General", "GeneralGeneral"}

C8_CopyClassification ==
  /\ \A i \in 1 .. Len(queue) :
       queue[i].kernel = "copy" => queue[i].ctype \in CopyTypes
  /\ op = "Full" =>
       /\ Len(queue) = 1
       /\ queue[1].ctype = "Scalar" <=> inp.data_size = 1
       /\ queue[1].ctype = "Vector" <=> (inp.data_size # 1 /\ inp.contiguous)
       /\ queue[1].ctype = "General" <=> (inp.data_size # 1 /\ ~inp.contiguous)
  /\ (op = "SliceUpdate" /\ queue # <<>>) =>
       /\ queue[1].ctype = "Scalar" <=> inp.data_size = 1
       /\ queue[1].ctype = "Vector" <=>
            (inp.data_size # 1 /\ inp.contiguous /\ inp.size = inp.data_size)
       /\ queue[1].ctype = "General" <=>
            (inp.data_size # 1 /\ ~(inp.contiguous /\ inp.size = inp.data_size))
  /\ op = "AsType" =>
       /\ Len(queue) = 1
       /\ queue[1].ctype = "Vector" <=> inp.contiguous
       /\ queue[1].ctype = "General" <=> ~inp.contiguous

C8_Witness ==
  /\ op = "SliceUpdate"
  /\ inp.contiguous /\ inp.data_size # 1 /\ inp.data_size # inp.size
  /\ queue # <<>> /\ queue[1].ctype = "General"

\* C9: SliceUpdate with a non-empty output and a non-empty update encodes
\* exactly two copies, ordered by the stream: the base into the whole
\* output (Scalar, Vector or General), then the update into the sub-region
\* at the slice offset (GeneralGeneral), so that in the end the sub-region
\* holds the update and every other element the base.  With a non-empty
\* output and an empty update it encodes no copy and the output shares the
\* base's buffer; with an empty output it binds a null buffer and does
\* nothing else.
Selected(idx) ==
  \A d \in 1 .. NDim :
    /\ idx[d] >= inp.slice[d].start
    /\ (idx[d] - inp.slice[d].start) % inp.slice[d].step = 0
    /\ (idx[d] - inp.slice[d].start) \div inp.slice[d].step < inp.slice[d].n
UpdIndex(idx) ==
  [d \in 1 .. NDim |-> (idx[d] - inp.slice[d].start) \div inp.slice[d].step]

C9_SliceUpdate ==
  op = "SliceUpdate" =>
    LET strides == RowMajorStrides(inp.shape) IN
      IF inp.size = 0
        THEN binds = <<"null">> /\ allocs = 0 /\ queue = <<>>
        ELSE IF Size(inp.upd_shape) = 0
          THEN binds = <<"alias">> /\ allocs = 0 /\ queue = <<>>
          ELSE
            /\ Len(queue) = 2
            /\ queue[1].ctype \in {"Scalar", "Vector", "General"}
            /\ Region(queue[1]) = 0 .. inp.size - 1
            /\ queue[2].ctype = "GeneralGeneral"
            /\ <<Loc(0, strides, <<inp.slice[1].start, inp.slice[2].start>>),
                 InVal(1, <<0, 0>>)>> \in queue[2].wr
            /\ 2 \in done => 1 \in done
            /\ AllDone =>
                 \A idx \in Indices(inp.shape) :
                   buf[Loc(0, strides, idx)] =
                     IF Selected(idx) THEN InVal(1, UpdIndex(idx))
                       ELSE BaseVal(inp.data_size, idx)

C9_Witness ==
  /\ op = "SliceUpdate"
  /\ inp.shape = <<2, 2>> /\ inp.upd_shape = <<1, 2>>
  /\ inp.slice[1].start = 1
  /\ AllDone /\ Len(queue) = 2

\* C10 as stated: an evaluation that returns without error has bound the
\* output's buffer exactly once, by one allocation or by sharing an
\* existing buffer; Reshape and Slice either share with no allocation and
\* no dispatch or allocate once and encode exactly one General copy.
C10_BoundOnce ==
  (Evaluated /\ err = "none") =>
    /\ Len(binds) = 1
    /\ \/ binds[1] = "alloc" /\ allocs = 1
       \/ binds[1] = "alias" /\ allocs = 0
    /\ op \in {"Reshape", "Slice"} =>
         \/ binds[1] = "alias" /\ queue = <<>>
         \/ /\ binds[1] = "alloc"
            /\ Len(queue) = 1
            /\ queue[1].ctype = "General"

\* C10 as amended: an evaluation that returns without error has bound the
\* output's buffer exactly once: by one allocation, by sharing an existing
\* buffer, or, only for Slice and SliceUpdate with an empty output, by
\* binding a null buffer without allocating; Reshape, and Slice with a
\* non-empty output, either share with no allocation and no dispatch or
\* allocate once and encode exactly one General copy.
C10_BoundOnceOrNull ==
  (Evaluated /\ err = "none") =>
    /\ Len(binds) = 1
    /\ \/ binds[1] = "alloc" /\ allocs = 1
       \/ binds[1] = "alias" /\ allocs = 0
       \/ /\ binds[1] = "null" /\ allocs = 0 /\ queue = <<>>
          /\ op \in {"Slice", "SliceUpdate"} /\ inp.size = 0
    /\ (op \in {"Slice", "SliceUpdate"} /\ inp.size = 0) => binds[1] = "null"
    /\ (op = "Reshape" \/ (op = "Slice" /\ inp.size > 0)) =>
         \/ binds[1] = "alias" /\ queue = <<>>
         \/ /\ binds[1] = "alloc"
            /\ Len(queue) = 1
            /\ queue[1].ctype = "General"

C10_Witness ==
  /\ op = "Slice"
  /\ inp.size > 0 /\ inp.copy_needed
  /\ binds = <<"alloc">> /\ done = {1}
====
